---- MODULE Spec2Model ----
(***************************************************************************)
(* The RBAC API of casbin.Enforcer (src/casbin/enforcer.py): role and      *)
(* permission composites over the policy store, and the implicit-role,     *)
(* implicit-permission and implicit-user queries.                          *)
(*                                                                         *)
(* The policy store (model.model["p"]["p"].policy, ...["g"][pt].policy),   *)
(* the role managers (rm_map) and the matcher (enforce) live in            *)
(* casbin.management_enforcer / casbin.util / casbin.rbac, which are not   *)
(* part of src/; they are modelled from the specification's description   *)
(* of these collaborators.                                                 *)
(***************************************************************************)
EXTENDS Integers, Sequences, FiniteSets, TLC

\* ---------------------------------------------------------------- bounds
\* Largest number of rules (permission rules plus rules of relation g)
\* the store holds.
MaxRules == 2

\* ------------------------------------------------------------ input sets
Entity == {"alice", "admin", "bob"}
Object == {"data1", "data2"}
Act == {"read"}
Domain == {"d1"}
\* Python's None (domain=None, "no result yet").
None == "None"
DomainArg == {None} \cup Domain
\* The grouping relations the model declares, in rm_map's insertion order.
GTypes == <<"g", "g2">>
\* (object, action) permissions of a three-field p rule.
Permission == {<<o, a>> : o \in Object, a \in Act}

VARIABLES
    p,        \* permission rules: model.model["p"]["p"].policy, a list of rules
    g,        \* grouping rules: relation name -> model.model["g"][pt].policy
    rm_map,   \* role graphs: relation name -> list of edges <<grantee, grantor, domain>>
    call,     \* the last operation called and its arguments
    ret,      \* what that operation returned
    pc,       \* position of the get_implicit_roles_for_user coroutine: "idle" | "loop"
    res,      \* its local res
    queue,    \* its local queue
    popped,   \* the entities it has popped from queue so far, in order
    tpc,      \* position of a caller doing add_role_for_user then delete_role_for_user
    snap,     \* the role-graph edge set that caller saw before its add
    co,       \* the delete_user / delete_role coroutine: where it is and its res1
    ip        \* the get_implicit_permissions_for_user coroutine: where it is, its
              \* locals roles and res (acc), the number n of mutations run since
              \* it started, and what it would have returned in each store state
              \* that existed since then (seen)

store == <<p, g, rm_map>>
trav == <<pc, res, queue, popped>>
client == <<tpc, snap>>
coro == <<co, ip>>
vars == <<p, g, rm_map, call, ret, pc, res, queue, popped, tpc, snap, co, ip>>

\* ---------------------------------------------------------------- values
Range(s) == {s[i] : i \in 1..Len(s)}
NoDup(s) == \A i, j \in 1..Len(s) : s[i] = s[j] => i = j
\* All duplicate-free lists of at most n elements of S.
RECURSIVE Lists(_, _)
Lists(S, n) ==
    IF n = 0 THEN {<<>>}
    ELSE LET shorter == Lists(S, n - 1)
         IN  shorter \cup {Append(s[1], s[2]) : s \in {s \in shorter \X S : s[2] \notin Range(s[1])}}

\* Return values. A Python bool, a list, or an un-awaited coroutine object.
RetBool(b) == [kind |-> "bool", b |-> b, l |-> <<>>]
RetList(l) == [kind |-> "list", b |-> l # <<>>, l |-> l]
RetCoroutine == [kind |-> "coroutine", b |-> TRUE, l |-> <<>>]
RetNone == [kind |-> "none", b |-> FALSE, l |-> <<>>]
NoCall == [op |-> "init", args |-> <<>>]

\* join_slice(a, *b) of casbin.util: the list [a, *b].
join_slice(a, b) == <<a>> \o b

\* ------------------------------------------- policy store (management layer)
\* A rule matches a filter when every non-empty filter value equals the
\* rule's field at field_index + i.
FilterMatch(rule, field_index, field_values) ==
    \A i \in 1..Len(field_values) :
        \/ field_values[i] = ""
        \/ /\ field_index + i <= Len(rule)
           /\ rule[field_index + i] = field_values[i]

\* has_policy / has_grouping_policy: exact-tuple membership.
has_rule(rules, rule) == rule \in Range(rules)

\* add_policy / add_grouping_policy: no-op (False) when already present.
add_rule(rules, rule) ==
    IF has_rule(rules, rule)
    THEN [rules |-> rules, res |-> FALSE]
    ELSE [rules |-> Append(rules, rule), res |-> TRUE]

\* remove_policy / remove_grouping_policy: False when absent.
remove_rule(rules, rule) ==
    [rules |-> SelectSeq(rules, LAMBDA r : r # rule),
     res |-> has_rule(rules, rule)]

\* remove_filtered_policy / remove_filtered_grouping_policy.
remove_filtered(rules, field_index, field_values) ==
    [rules |-> SelectSeq(rules, LAMBDA r : ~FilterMatch(r, field_index, field_values)),
     res |-> \E r \in Range(rules) : FilterMatch(r, field_index, field_values)]

\* get_filtered_policy: the matching rules in store order.
get_filtered_policy(field_index, field_values) ==
    SelectSeq(p, LAMBDA r : FilterMatch(r, field_index, field_values))

\* build_role_links: one edge per grouping rule, in rule order; a two-field
\* rule gives a global (untagged) edge.
EdgeOf(rule) ==
    <<rule[1], rule[2], IF Len(rule) >= 3 THEN rule[3] ELSE None>>
build_role_links(gp) ==
    [pt \in DOMAIN gp |-> [i \in 1..Len(gp[pt]) |-> EdgeOf(gp[pt][i])]]

\* RoleManager.get_roles(name, domain): the direct grantors of name among
\* the edges of that domain, in insertion order.
RECURSIVE get_roles(_, _, _)
get_roles(rm, name, domain) ==
    IF rm = <<>> THEN <<>>
    ELSE LET e == Head(rm)
             rest == get_roles(Tail(rm), name, domain)
         IN  IF e[1] = name /\ e[3] = domain THEN <<e[2]>> \o rest ELSE rest

\* RoleManager.get_users(name, domain): the direct grantees of name.
RECURSIVE get_users(_, _, _)
get_users(rm, name, domain) ==
    IF rm = <<>> THEN <<>>
    ELSE LET e == Head(rm)
             rest == get_users(Tail(rm), name, domain)
         IN  IF e[2] = name /\ e[3] = domain THEN <<e[1]>> \o rest ELSE rest

\* The edge set of every role graph (what "the role graph" is as a set).
Edges(rms) == [pt \in DOMAIN rms |-> Range(rms[pt])]

\* The management layer's grouping-rule CRUD. A grant or revocation of one
\* role touches one rule of the default relation g; the filtered removal
\* removes every grouping rule that matches. Each rebuilds the role links.
add_grouping_policy(gp, rule) ==
    LET r == add_rule(gp["g"], rule)
    IN  [g |-> [gp EXCEPT !["g"] = r.rules], res |-> r.res]
remove_grouping_policy(gp, rule) ==
    LET r == remove_rule(gp["g"], rule)
    IN  [g |-> [gp EXCEPT !["g"] = r.rules], res |-> r.res]
remove_filtered_grouping_policy(gp, field_index, field_values) ==
    [g |-> [pt \in DOMAIN gp |->
                remove_filtered(gp[pt], field_index, field_values).rules],
     res |-> \E pt \in DOMAIN gp :
                remove_filtered(gp[pt], field_index, field_values).res]

\* The store holds at most MaxRules rules in p and relation g together.
Fits(gp, pp) == Len(gp["g"]) + Len(pp) <= MaxRules

\* What an operation leaves behind: the store, the call and its result.
Returns(op, args, gp, pp, result) ==
    /\ g' = gp
    /\ rm_map' = build_role_links(gp)
    /\ p' = pp
    /\ call' = [op |-> op, args |-> args]
    /\ ret' = result

\* ------------------------------------------------- mutation composites
add_role_for_user_swapped(user, role) ==
    LET r == add_grouping_policy(g, <<role, user>>)
    IN  /\ Fits(r.g, p)
        /\ Returns("add_role_for_user", <<user, role>>, r.g, p, RetBool(r.res))
add_role_for_user(user, role) ==
    LET r == add_grouping_policy(g, <<user, role>>)
    IN  /\ Fits(r.g, p)
        /\ Returns("add_role_for_user", <<user, role>>, r.g, p, RetBool(r.res))

delete_role_for_user_all(user, role) ==
    LET r == remove_filtered_grouping_policy(g, 0, <<user>>)
    IN  Returns("delete_role_for_user", <<user, role>>, r.g, p, RetBool(r.res))
delete_role_for_user(user, role) ==
    LET r == remove_grouping_policy(g, <<user, role>>)
    IN  Returns("delete_role_for_user", <<user, role>>, r.g, p, RetBool(r.res))

delete_roles_for_user(user) ==
    LET r == remove_filtered_grouping_policy(g, 0, <<user>>)
    IN  Returns("delete_roles_for_user", <<user>>, r.g, p, RetBool(r.res))

\* res1 or res2, both awaited.
delete_user_roles_only(user) ==
    LET r1 == remove_filtered_grouping_policy(g, 0, <<user>>)
    IN  Returns("delete_user", <<user>>, r1.g, p, RetBool(r1.res))
delete_user(user) ==
    LET r1 == remove_filtered_grouping_policy(g, 0, <<user>>)
        r2 == remove_filtered(p, 0, <<user>>)
    IN  Returns("delete_user", <<user>>, r1.g, r2.rules,
                RetBool(r1.res \/ r2.res))

\* res2 is the coroutine object of remove_filtered_policy(0, role): line 70
\* does not await it, so its body never runs and p keeps its rules; the
\* value of "res1 or res2" is True when res1 is, else that (truthy) coroutine.
delete_role(role) ==
    LET r1 == remove_filtered_grouping_policy(g, 1, <<role>>)
    IN  Returns("delete_role", <<role>>, r1.g, p,
                IF r1.res THEN RetBool(TRUE) ELSE RetCoroutine)

\* Line 78 with field index 0 in place of 1.
delete_permission_from_subject(permission) ==
    LET r == remove_filtered(p, 0, permission)
    IN  Returns("delete_permission", permission, g, r.rules, RetBool(r.res))
delete_permission(permission) ==
    LET r == remove_filtered(p, 1, permission)
    IN  Returns("delete_permission", permission, g, r.rules, RetBool(r.res))

add_permission_for_user(user, permission) ==
    LET r == add_rule(p, join_slice(user, permission))
    IN  /\ Fits(g, r.rules)
        /\ Returns("add_permission_for_user", join_slice(user, permission),
                   g, r.rules, RetBool(r.res))

\* Line 92 removing every rule of the user, not the one rule.
delete_permission_for_user_all(user, permission) ==
    LET r == remove_filtered(p, 0, <<user>>)
    IN  Returns("delete_permission_for_user", join_slice(user, permission),
                g, r.rules, RetBool(r.res))
delete_permission_for_user(user, permission) ==
    LET r == remove_rule(p, join_slice(user, permission))
    IN  Returns("delete_permission_for_user", join_slice(user, permission),
                g, r.rules, RetBool(r.res))

delete_permissions_for_user(user) ==
    LET r == remove_filtered(p, 0, <<user>>)
    IN  Returns("delete_permissions_for_user", <<user>>, g, r.rules, RetBool(r.res))

\* ------------------------------------------------------------- queries
\* Lines 130-131: the direct roles of name in every role manager of
\* rm_map, relation by relation.
RECURSIVE roles_in(_, _, _)
roles_in(pts, name, domain) ==
    IF pts = <<>> THEN <<>>
    ELSE get_roles(rm_map[Head(pts)], name, domain)
            \o roles_in(Tail(pts), name, domain)
roles_of_default_only(name, domain) == get_roles(rm_map["g"], name, domain)
roles_of(name, domain) == roles_in(GTypes, name, domain)

\* Lines 132-135 with res.insert(0, r) in place of res.append(r).
RECURSIVE visit_prepend(_, _, _)
visit_prepend(roles, rs, q) ==
    IF roles = <<>> THEN [res |-> rs, queue |-> q]
    ELSE LET r == Head(roles)
         IN  IF r \in Range(rs)
             THEN visit_prepend(Tail(roles), rs, q)
             ELSE visit_prepend(Tail(roles), <<r>> \o rs, Append(q, r))

\* Lines 132-135: append and enqueue every role not yet in res.
RECURSIVE visit(_, _, _)
visit(roles, rs, q) ==
    IF roles = <<>> THEN [res |-> rs, queue |-> q]
    ELSE LET r == Head(roles)
         IN  IF r \in Range(rs)
             THEN visit(Tail(roles), rs, q)
             ELSE visit(Tail(roles), Append(rs, r), Append(q, r))

\* Lines 128-135: one iteration of "while queue": pop the front, expand it.
loop_body_no_pop(rs, q, domain) == visit(roles_of(Head(q), domain), rs, q)
loop_body(rs, q, domain) == visit(roles_of(Head(q), domain), rs, Tail(q))

\* Lines 127-137: iterate until the queue is empty, return res.
RECURSIVE while_queue(_, _, _)
while_queue(rs, q, domain) ==
    IF q = <<>> THEN rs
    ELSE LET s == loop_body(rs, q, domain)
         IN  while_queue(s.res, s.queue, domain)

\* Lines 124-137: the list get_implicit_roles_for_user returns.
implicit_roles_for_user(name, domain) == while_queue(<<>>, <<name>>, domain)

\* get_permissions_for_user / get_permissions_for_user_in_domain.
permissions_for_user(user) == get_filtered_policy(0, <<user>>)
\* Line 216 without the domain among the filter values.
permissions_for_user_any_domain(user, domain) == get_filtered_policy(0, <<user>>)
permissions_for_user_in_domain(user, domain) ==
    get_filtered_policy(0, <<user, domain>>)

\* Lines 155-164: res.extend(permissions) for each role of roles.
RECURSIVE extend_all(_, _)
extend_all(roles, domain) ==
    IF roles = <<>> THEN <<>>
    ELSE (IF domain # None
          THEN permissions_for_user_in_domain(Head(roles), domain)
          ELSE permissions_for_user(Head(roles)))
            \o extend_all(Tail(roles), domain)

\* Lines 151-153: the entities whose permissions are read, the user first.
entity_list_roles_only(user, domain) == implicit_roles_for_user(user, domain)
entity_list(user, domain) == <<user>> \o implicit_roles_for_user(user, domain)
\* Lines 151-166: the list get_implicit_permissions_for_user returns.
implicit_permissions_user_last(user, domain) ==
    extend_all(Append(implicit_roles_for_user(user, domain), user), domain)
implicit_permissions_for_user(user, domain) ==
    extend_all(<<user>> \o implicit_roles_for_user(user, domain), domain)

\* The distinct elements of a list, in order of first appearance.
RECURSIVE distinct(_, _)
distinct(s, seen) ==
    IF s = <<>> THEN <<>>
    ELSE IF Head(s) \in seen THEN distinct(Tail(s), seen)
         ELSE <<Head(s)>> \o distinct(Tail(s), seen \cup {Head(s)})
column(rules, i) == [k \in 1..Len(rules) |-> rules[k][i]]
RECURSIVE column_in(_, _)
column_in(pts, i) ==
    IF pts = <<>> THEN <<>>
    ELSE column(g[Head(pts)], i) \o column_in(Tail(pts), i)

\* get_all_subjects: the subjects that show up in the permission rules.
get_all_subjects == distinct(column(p, 1), {})
\* get_all_roles: the grantors that show up in the grouping rules.
get_all_roles == distinct(column_in(GTypes, 2), {})
\* set_subtract(a, b) of casbin.util: the elements of a that are not in b.
set_subtract(a, b) == SelectSeq(a, LAMBDA x : x \notin Range(b))

\* The matcher. has_link: user is role, or reaches it along global edges of
\* relation g; enforce: some permission rule whose subject the request's
\* subject links to and whose other fields equal the request's.
RECURSIVE links(_, _, _)
links(rm, names, k) ==
    IF k = 0 THEN names
    ELSE links(rm, names \cup {e[2] : e \in {e \in Range(rm) : e[1] \in names /\ e[3] = None}},
               k - 1)
has_link(user, role) == role \in links(rm_map["g"], {user}, Len(rm_map["g"]))
enforce(req) ==
    \E rule \in Range(p) :
        /\ Len(rule) = Len(req)
        /\ has_link(req[1], rule[1])
        /\ \A i \in 2..Len(req) : rule[i] = req[i]

\* Lines 179-192: the list get_implicit_users_for_permission returns.
implicit_users_no_subtract(permission) ==
    SelectSeq(get_all_subjects, LAMBDA user : enforce(join_slice(user, permission)))
implicit_users_for_permission(permission) ==
    LET users == set_subtract(get_all_subjects, get_all_roles)
    IN  SelectSeq(users, LAMBDA user : enforce(join_slice(user, permission)))

\* Lines 19-30, 101-111: the direct queries.
get_roles_for_user(name) ==
    Returns("get_roles_for_user", <<name>>, g, p,
            RetList(get_roles(rm_map["g"], name, None)))
get_users_for_role(name) ==
    Returns("get_users_for_role", <<name>>, g, p,
            RetList(get_users(rm_map["g"], name, None)))
has_role_for_user(name, role) ==
    LET roles == get_roles(rm_map["g"], name, None)
    IN  Returns("has_role_for_user", <<name, role>>, g, p,
                RetBool(\E i \in 1..Len(roles) : roles[i] = role))
\* Line 105 with remove_filtered_policy in place of get_filtered_policy.
get_permissions_for_user_removing(user) ==
    Returns("get_permissions_for_user", <<user>>, g,
            remove_filtered(p, 0, <<user>>).rules, RetList(permissions_for_user(user)))
get_permissions_for_user(user) ==
    Returns("get_permissions_for_user", <<user>>, g, p,
            RetList(permissions_for_user(user)))
has_permission_for_user(user, permission) ==
    Returns("has_permission_for_user", join_slice(user, permission), g, p,
            RetBool(has_rule(p, join_slice(user, permission))))
get_implicit_roles_for_user(name, domain) ==
    Returns("get_implicit_roles_for_user", <<name, domain>>, g, p,
            RetList(implicit_roles_for_user(name, domain)))
get_implicit_permissions_for_user(user, domain) ==
    Returns("get_implicit_permissions_for_user", <<user, domain>>, g, p,
            RetList(implicit_permissions_for_user(user, domain)))
get_implicit_users_for_permission(permission) ==
    Returns("get_implicit_users_for_permission", permission, g, p,
            RetList(implicit_users_for_permission(permission)))

\* ------------------------------------------------------------ Spec
\* The rules of relation g2 a policy file declares: global ones, or ones
\* tagged with a domain (and then none that a query without domain sees).
G2Loaded == << <<"alice", "bob">>, <<"admin", "alice">> >>
G2Domain == << <<"alice", "admin", "d1">>, <<"bob", "admin", "d1">> >>
G2Options == {G2Loaded, G2Domain}

\* No composite is in flight; no get_implicit_permissions_for_user is.
NoComposite == [at |-> "none", op |-> "none", arg |-> None, res1 |-> FALSE]
NoTraversal ==
    [at |-> "idle", user |-> None, roles |-> <<>>, acc |-> <<>>,
     n |-> 0, seen |-> {}]

\* The state after construction from a loaded policy.
Loaded(pp, gg, gg2) ==
    /\ p = pp
    /\ g = [pt \in Range(GTypes) |-> IF pt = "g2" THEN gg2 ELSE gg]
    /\ rm_map = build_role_links(g)
    /\ call = NoCall
    /\ ret = RetNone
    /\ pc = "idle" /\ res = <<>> /\ queue = <<>> /\ popped = <<>>
    /\ tpc = "start" /\ snap = [edges |-> Edges(rm_map), held |-> FALSE]
    /\ co = NoComposite
    /\ ip = NoTraversal

Init == Loaded(<<>>, <<>>, G2Loaded)

AddRoleForUser ==
    \E user \in Entity, role \in Entity :
        add_role_for_user(user, role) /\ UNCHANGED <<trav, client, coro>>
DeleteRoleForUser ==
    \E user \in Entity, role \in Entity :
        delete_role_for_user(user, role) /\ UNCHANGED <<trav, client, coro>>
DeleteRolesForUser ==
    \E user \in Entity : delete_roles_for_user(user) /\ UNCHANGED <<trav, client, coro>>
DeleteUser ==
    \E user \in Entity : delete_user(user) /\ UNCHANGED <<trav, client, coro>>
DeleteRole ==
    \E role \in Entity : delete_role(role) /\ UNCHANGED <<trav, client, coro>>
DeletePermission ==
    \E permission \in Permission :
        delete_permission(permission) /\ UNCHANGED <<trav, client, coro>>
AddPermissionForUser ==
    \E user \in Entity, permission \in Permission :
        add_permission_for_user(user, permission) /\ UNCHANGED <<trav, client, coro>>
DeletePermissionForUser ==
    \E user \in Entity, permission \in Permission :
        delete_permission_for_user(user, permission) /\ UNCHANGED <<trav, client, coro>>
DeletePermissionsForUser ==
    \E user \in Entity :
        delete_permissions_for_user(user) /\ UNCHANGED <<trav, client, coro>>

Next ==
    \/ AddRoleForUser
    \/ DeleteRoleForUser
    \/ DeleteRolesForUser
    \/ DeleteUser
    \/ DeleteRole
    \/ DeletePermission
    \/ AddPermissionForUser
    \/ DeletePermissionForUser
    \/ DeletePermissionsForUser

Spec == Init /\ [][Next]_vars

\* ------------------------------------------------------------ QuerySpec
\* The queries, applied to every store of at most MaxStore rules in p and
\* relation g together, with one of the loadable contents of relation g2.
MaxStore == 3
PRules == {join_slice(user, permission) : user \in Entity, permission \in Permission}
GRules == {<<user, role>> : user \in Entity, role \in Entity}
QueryInit ==
    \E pp \in Lists(PRules, MaxStore) :
        \E gg \in Lists(GRules, MaxStore - Len(pp)) :
            \E gg2 \in G2Options : Loaded(pp, gg, gg2)

GetImplicitRolesForUser ==
    \E name \in Entity, domain \in DomainArg :
        get_implicit_roles_for_user(name, domain) /\ UNCHANGED <<trav, client, coro>>
GetImplicitPermissionsForUser ==
    \E user \in Entity :
        get_implicit_permissions_for_user(user, None) /\ UNCHANGED <<trav, client, coro>>
GetImplicitUsersForPermission ==
    \E permission \in Permission :
        get_implicit_users_for_permission(permission) /\ UNCHANGED <<trav, client, coro>>

QueryNext ==
    \/ GetImplicitRolesForUser
    \/ GetImplicitPermissionsForUser
    \/ GetImplicitUsersForPermission

QuerySpec == QueryInit /\ [][QueryNext]_vars

\* ------------------------------------------------------------- LiveSpec
\* get_implicit_roles_for_user run one loop iteration at a time, on every
\* role graph of at most MaxEdges rules in relation g.
MaxEdges == 2

LiveInit ==
    \E gg \in Lists(GRules, MaxEdges) :
        \E gg2 \in G2Options : Loaded(<<>>, gg, gg2)

\* Lines 124-125: res = [], queue = [name].
EnterImplicitRoles ==
    \E name \in Entity, domain \in DomainArg :
        /\ pc = "idle"
        /\ pc' = "loop"
        /\ res' = <<>>
        /\ queue' = <<name>>
        /\ popped' = <<>>
        /\ call' = [op |-> "get_implicit_roles_for_user", args |-> <<name, domain>>]
        /\ ret' = RetNone
        /\ UNCHANGED <<store, client, coro>>
\* Lines 127-135: the queue is not empty, run the loop body once.
LoopIteration ==
    /\ pc = "loop"
    /\ queue # <<>>
    /\ LET s == loop_body(res, queue, call.args[2])
       IN  res' = s.res /\ queue' = s.queue
    /\ popped' = IF Len(popped) <= Cardinality(Entity) + 1
                 THEN Append(popped, Head(queue))
                 ELSE popped    \* the record stops past what any traversal pops
    /\ UNCHANGED <<store, client, coro, call, ret, pc>>
\* Line 137: the queue is empty, return res.
ReturnRes ==
    /\ pc = "loop"
    /\ queue = <<>>
    /\ ret' = RetList(res)
    /\ pc' = "idle"
    /\ res' = <<>>
    /\ UNCHANGED <<store, client, coro, call, queue, popped>>

LiveNext == EnterImplicitRoles \/ LoopIteration \/ ReturnRes

\* The coroutine has no await inside its loop: once entered it runs on.
LiveSpec ==
    LiveInit /\ [][LiveNext]_vars /\ WF_vars(LoopIteration) /\ WF_vars(ReturnRes)

\* -------------------------------------------------------- RoundTripSpec
\* A caller that grants a role and then revokes it, from every role graph
\* of at most MaxEdges rules in relation g.
RoundTripInit ==
    \E gg \in Lists(GRules, MaxEdges) : Loaded(<<>>, gg, G2Loaded)

GrantStep ==
    \E user \in Entity, role \in Entity :
        /\ tpc = "start"
        /\ add_role_for_user(user, role)
        /\ tpc' = "added"
        /\ snap' = [edges |-> Edges(rm_map),
                    held |-> role \in Range(get_roles(rm_map["g"], user, None))]
        /\ UNCHANGED <<trav, coro>>
RevokeStep ==
    /\ tpc = "added"
    /\ delete_role_for_user(call.args[1], call.args[2])
    /\ tpc' = "deleted"
    /\ UNCHANGED <<trav, snap, coro>>

RoundTripNext == GrantStep \/ RevokeStep

RoundTripSpec == RoundTripInit /\ [][RoundTripNext]_vars

\* ----------------------------------------------------------- DeleteSpec
\* The single-rule and by-permission removals, from every store of at most
\* MaxLoaded rules in p and relation g together.
MaxLoaded == 2

LoadedInit ==
    \E pp \in Lists(PRules, MaxLoaded) :
        \E gg \in Lists(GRules, MaxLoaded - Len(pp)) :
            \E gg2 \in G2Options : Loaded(pp, gg, gg2)

DeleteNext == DeletePermission \/ DeleteRoleForUser \/ DeletePermissionForUser

DeleteSpec == LoadedInit /\ [][DeleteNext]_vars
\* ------------------------------------------------------------- ReadSpec
\* The eight queries, applied to every store of at most MaxLoaded rules.
GetRolesForUser ==
    \E name \in Entity : get_roles_for_user(name) /\ UNCHANGED <<trav, client, coro>>
GetUsersForRole ==
    \E name \in Entity : get_users_for_role(name) /\ UNCHANGED <<trav, client, coro>>
HasRoleForUser ==
    \E name \in Entity, role \in Entity :
        has_role_for_user(name, role) /\ UNCHANGED <<trav, client, coro>>
GetPermissionsForUser ==
    \E user \in Entity :
        get_permissions_for_user(user) /\ UNCHANGED <<trav, client, coro>>
HasPermissionForUser ==
    \E user \in Entity, permission \in Permission :
        has_permission_for_user(user, permission) /\ UNCHANGED <<trav, client, coro>>

ReadNext ==
    \/ GetRolesForUser
    \/ GetUsersForRole
    \/ HasRoleForUser
    \/ GetPermissionsForUser
    \/ HasPermissionForUser
    \/ GetImplicitRolesForUser
    \/ GetImplicitPermissionsForUser
    \/ GetImplicitUsersForPermission

ReadSpec == LoadedInit /\ [][ReadNext]_vars
\* -------------------------------------------------------------- ArgSpec
\* The operations that take a permission tuple, called with tuples of the
\* model's arity and with tuples one field short and one field long.
Malformed == {<<o>> : o \in Object} \cup {<<o, a, a>> : o \in Object, a \in Act}
PermissionArg == Permission \cup Malformed

AddPermissionForUserArg ==
    \E user \in Entity, permission \in PermissionArg :
        add_permission_for_user(user, permission) /\ UNCHANGED <<trav, client, coro>>
HasPermissionForUserArg ==
    \E user \in Entity, permission \in PermissionArg :
        has_permission_for_user(user, permission) /\ UNCHANGED <<trav, client, coro>>
GetImplicitUsersForPermissionArg ==
    \E permission \in PermissionArg :
        get_implicit_users_for_permission(permission) /\ UNCHANGED <<trav, client, coro>>

ArgNext ==
    \/ AddPermissionForUserArg
    \/ HasPermissionForUserArg
    \/ GetImplicitUsersForPermissionArg

ArgSpec == Init /\ [][ArgNext]_vars
\* ------------------------------------------------------------- AtomSpec
\* One call of delete_user, run one await at a time, or of delete_role, and
\* the queries of another coroutine scheduled before, in between and after,
\* from every store of at most MaxLoaded rules.

\* Line 58: res1 = await self.remove_filtered_grouping_policy(0, user).
DeleteUserFirstAwait ==
    \E user \in Entity :
        LET r1 == remove_filtered_grouping_policy(g, 0, <<user>>)
        IN  /\ co.at = "none"
            /\ Returns("delete_user", <<user>>, r1.g, p, RetNone)
            /\ co' = [at |-> "second await", op |-> "delete_user",
                      arg |-> user, res1 |-> r1.res]
            /\ UNCHANGED <<trav, client, ip>>
\* Lines 60-61: res2 = await self.remove_filtered_policy(0, user);
\* return res1 or res2.
DeleteUserSecondAwait ==
    LET r2 == remove_filtered(p, 0, <<co.arg>>)
    IN  /\ co.at = "second await"
        /\ Returns("delete_user", <<co.arg>>, g, r2.rules, RetBool(co.res1 \/ r2.res))
        /\ co' = [co EXCEPT !.at = "returned"]
        /\ UNCHANGED <<trav, client, ip>>
\* delete_role has one await: it runs to its return once that has resumed.
DeleteRoleCall ==
    \E role \in Entity :
        /\ co.at = "none"
        /\ delete_role(role)
        /\ co' = [at |-> "returned", op |-> "delete_role", arg |-> role,
                  res1 |-> remove_filtered_grouping_policy(g, 1, <<role>>).res]
        /\ UNCHANGED <<trav, client, ip>>

AtomNext ==
    \/ DeleteUserFirstAwait
    \/ DeleteUserSecondAwait
    \/ DeleteRoleCall
    \/ GetRolesForUser
    \/ GetPermissionsForUser

AtomSpec == LoadedInit /\ [][AtomNext]_vars
\* ------------------------------------------------------------- ConcSpec
\* One call of get_implicit_permissions_for_user, run one await at a time,
\* with at most MaxInterleaved mutations of other coroutines scheduled at
\* its await points, from every store of at most MaxLoaded rules.
MaxInterleaved == 1

\* Lines 151-155: the closure is computed (get_implicit_roles_for_user does
\* not suspend inside its loop), the user is put in front, res = [].
ImplicitPermissionsEnter ==
    \E user \in Entity :
        /\ ip.at = "idle"
        /\ ip' = [at |-> "reading", user |-> user, roles |-> entity_list(user, None),
                  acc |-> <<>>, n |-> 0,
                  seen |-> {implicit_permissions_for_user(user, None)}]
        /\ call' = [op |-> "get_implicit_permissions_for_user", args |-> <<user, None>>]
        /\ ret' = RetNone
        /\ UNCHANGED <<store, trav, client, co>>
\* Lines 156-164: permissions = await self.get_permissions_for_user(role);
\* res.extend(permissions), for the next role of roles.
ImplicitPermissionsRead ==
    /\ ip.at = "reading"
    /\ ip.roles # <<>>
    /\ ip' = [ip EXCEPT !.roles = Tail(@),
                        !.acc = @ \o permissions_for_user(Head(ip.roles)),
                        !.seen = @ \cup {implicit_permissions_for_user(ip.user, None)}]
    /\ UNCHANGED <<store, call, ret, trav, client, co>>
\* Line 166: return res.
ImplicitPermissionsReturn ==
    /\ ip.at = "reading"
    /\ ip.roles = <<>>
    /\ ip' = [ip EXCEPT !.at = "returned",
                        !.seen = @ \cup {implicit_permissions_for_user(ip.user, None)}]
    /\ call' = [op |-> "get_implicit_permissions_for_user", args |-> <<ip.user, None>>]
    /\ ret' = RetList(ip.acc)
    /\ UNCHANGED <<store, trav, client, co>>

\* A mutation of another coroutine runs while the call is suspended.
Interleaved ==
    /\ ip.at = "reading"
    /\ ip.n < MaxInterleaved
    /\ ip' = [ip EXCEPT !.n = @ + 1,
                        !.seen = @ \cup {implicit_permissions_for_user(ip.user, None)}]
InterleavedDeleteRole ==
    \E role \in Entity :
        delete_role(role) /\ Interleaved /\ UNCHANGED <<trav, client, co>>
InterleavedDeletePermission ==
    \E permission \in Permission :
        delete_permission(permission) /\ Interleaved /\ UNCHANGED <<trav, client, co>>
InterleavedAddPermissionForUser ==
    \E user \in Entity, permission \in Permission :
        /\ add_permission_for_user(user, permission)
        /\ Interleaved
        /\ UNCHANGED <<trav, client, co>>

ConcNext ==
    \/ ImplicitPermissionsEnter
    \/ ImplicitPermissionsRead
    \/ ImplicitPermissionsReturn
    \/ InterleavedDeleteRole
    \/ InterleavedDeletePermission
    \/ InterleavedAddPermissionForUser

ConcSpec == LoadedInit /\ [][ConcNext]_vars
\* ----------------------------------------------------------- DomainSpec
\* get_implicit_permissions_for_user with a domain, on a model with domains:
\* every store of at most MaxLoaded (subject, domain, object, action) rules
\* in p and (user, role, domain) rules in relation g together, relation g2
\* holding rules of domain d1.
Domains == {"d1", "d2"}
DomainPRules ==
    {<<user, domain, "data1", "read">> : user \in Entity, domain \in Domains}
DomainGRules ==
    {<<user, role, domain>> : user \in Entity, role \in Entity, domain \in Domains}
DomainInit ==
    \E pp \in Lists(DomainPRules, MaxLoaded) :
        \E gg \in Lists(DomainGRules, MaxLoaded - Len(pp)) : Loaded(pp, gg, G2Domain)

GetImplicitPermissionsForUserInDomain ==
    \E user \in Entity, domain \in Domains :
        get_implicit_permissions_for_user(user, domain) /\ UNCHANGED <<trav, client, coro>>

DomainNext == GetImplicitPermissionsForUserInDomain

DomainSpec == DomainInit /\ [][DomainNext]_vars
\* =============================================================== claims
IsCall(op) == call.op = op
\* The grantee -> grantor pairs a query with this domain sees, over the
\* role graphs of all grouping relations.
VisibleEdges(domain) ==
    {<<e[1], e[2]>> : e \in {e \in UNION {Range(rm_map[pt]) : pt \in DOMAIN rm_map} :
                                e[3] = domain}}
\* The entities reachable from x in one or more grantee -> grantor steps.
Reachable(x, domain) ==
    {y \in Entity :
        \E n \in 1..Cardinality(Entity) :
            \E path \in [0..n -> Entity] :
                /\ path[0] = x
                /\ path[n] = y
                /\ \A i \in 1..n : <<path[i - 1], path[i]>> \in VisibleEdges(domain)}
\* The entities that are grantor in some grouping rule, and the subjects of
\* the permission rules.
Grantors == {r[2] : r \in UNION {Range(g[pt]) : pt \in DOMAIN g}}
Subjects == {r[1] : r \in Range(p)}
DirectPermissions(entity) == SelectSeq(p, LAMBDA r : r[1] = entity)
RECURSIVE Concatenation(_)
Concatenation(entities) ==
    IF entities = <<>> THEN <<>>
    ELSE DirectPermissions(Head(entities)) \o Concatenation(Tail(entities))
TwoCycle == << <<"alice", "admin">>, <<"admin", "alice">> >>

\* C1: get_implicit_roles_for_user(x) never contains the starting entity x,
\* and for the graph alice -> admin -> alice it returns exactly [admin].
C1_NeverContainsStart ==
    IsCall("get_implicit_roles_for_user") =>
        /\ call.args[1] \notin Range(ret.l)
        /\ (g["g"] = TwoCycle /\ g["g2"] = G2Domain /\ call.args = <<"alice", None>>)
                => ret.l = <<"admin">>

\* C2: every get_implicit_roles_for_user traversal that has started reaches
\* its return: the work queue empties, on cyclic graphs too.
C2_Terminates == (pc = "loop") ~> (pc = "idle" /\ queue = <<>>)
\* A traversal that came back to its starting entity along a cycle has returned.
C2_Witness ==
    /\ pc = "idle"
    /\ IsCall("get_implicit_roles_for_user")
    /\ ret.kind = "list"
    /\ call.args[1] \in Range(ret.l)
    /\ Len(ret.l) >= 2

\* C3: the result of get_implicit_roles_for_user(x, domain) has no duplicates
\* and, as a set, is the set of entities reachable from x in one or more
\* steps in the union of the role graphs of all grouping relations.
C3_ClosureIsReachableSet ==
    IsCall("get_implicit_roles_for_user") =>
        /\ NoDup(ret.l)
        /\ Range(ret.l) = Reachable(call.args[1], call.args[2])
\* g: alice -> admin and g2: alice -> bob: the result holds both.
C3_Witness ==
    /\ IsCall("get_implicit_roles_for_user")
    /\ call.args = <<"alice", None>>
    /\ <<"alice", "admin">> \in Range(g["g"])
    /\ <<"alice", "bob">> \in Range(g["g2"])
    /\ {"admin", "bob"} \subseteq Range(ret.l)

\* C4: get_implicit_users_for_permission returns every entity that is not a
\* role and that enforce grants the permission, a user who holds it only
\* through a role included.
C4_EveryGrantedUser ==
    IsCall("get_implicit_users_for_permission") =>
        \A user \in Entity :
            (user \notin Grantors /\ enforce(join_slice(user, call.args)))
                => user \in Range(ret.l)

C7_DeleteRoleRemovesAll ==
    IsCall("delete_role") =>
        /\ call.args[1] \notin Grantors
        /\ call.args[1] \notin Subjects
        /\ ret.kind = "bool"

\* C8: delete_user(user) returns false when the user is grantee of no
\* grouping rule and subject of no permission rule, and true otherwise;
\* afterwards no such rule remains and every other rule is unchanged.
C8_DeleteUser ==
    [][\A user \in Entity :
          call' = [op |-> "delete_user", args |-> <<user>>] =>
              /\ ret' = RetBool(\/ \E pt \in DOMAIN g : \E r \in Range(g[pt]) : r[1] = user
                                \/ user \in Subjects)
              /\ \A pt \in DOMAIN g : \A r \in Range(g'[pt]) : r[1] # user
              /\ \A r \in Range(p') : r[1] # user
              /\ p' = SelectSeq(p, LAMBDA r : r[1] # user)
              /\ g' = [pt \in DOMAIN g |-> SelectSeq(g[pt], LAMBDA r : r[1] # user)]
      ]_vars
\* A delete_user that returned true and left other rules of both families.
C8_Witness ==
    /\ IsCall("delete_user")
    /\ ret = RetBool(TRUE)
    /\ p # <<>>
    /\ g["g"] # <<>>

\* C9: add_role_for_user for a role the user holds returns false and leaves
\* the grouping rules and the role-graph edges unchanged; the same for
\* add_permission_for_user of a rule that exists; no rule is ever stored twice.
C9_IdempotentGrants ==
    [][/\ \A user \in Entity, role \in Entity :
            (/\ call' = [op |-> "add_role_for_user", args |-> <<user, role>>]
             /\ role \in Range(get_roles(rm_map["g"], user, None)))
                => (ret' = RetBool(FALSE) /\ g' = g /\ Edges(rm_map') = Edges(rm_map))
       /\ \A rule \in PRules :
            (/\ call' = [op |-> "add_permission_for_user", args |-> rule]
             /\ rule \in Range(p))
                => (ret' = RetBool(FALSE) /\ p' = p)
       /\ NoDup(p')
       /\ \A pt \in DOMAIN g' : NoDup(g'[pt])
      ]_vars
\* A grant of a role already held was made and reported as not affected.
C9_Witness ==
    /\ IsCall("add_role_for_user")
    /\ ret = RetBool(FALSE)
    /\ <<call.args[1], call.args[2]>> \in Range(g["g"])

\* C10 as stated: from any store state, add_role_for_user(user, role) then
\* delete_role_for_user(user, role) restores the role-graph edge set.
C10_RoundTripAnyState ==
    tpc = "deleted" => Edges(rm_map) = snap.edges
\* C10 as amended: the same, from any store state in which the user does not
\* already hold the role.
C10_RoundTripFreshGrant ==
    (tpc = "deleted" /\ ~snap.held) => Edges(rm_map) = snap.edges
\* A fresh grant onto a non-empty graph, revoked again.
C10_Witness ==
    /\ tpc = "deleted"
    /\ ~snap.held
    /\ snap.edges["g"] # {}
    /\ ret = RetBool(TRUE)

\* ---------------------------------------------------------------------------
\* Breadth-first order of the closure.

\* The length of the shortest grantee -> grantor path, of one or more steps,
\* from x to y over the edges visible with this domain; 0 when there is none.
Dist(x, y, domain) ==
    LET lens == {n \in 1..Cardinality(Entity) :
                    \E path \in [0..n -> Entity] :
                        /\ path[0] = x
                        /\ path[n] = y
                        /\ \A i \in 1..n :
                              <<path[i - 1], path[i]>> \in VisibleEdges(domain)}
    IN  IF lens = {} THEN 0 ELSE CHOOSE n \in lens : \A m \in lens : n <= m
\* The roles of a list that are not in seen, each at its first occurrence.
RECURSIVE FirstSeen(_, _)
FirstSeen(roles, seen) ==
    IF roles = <<>> THEN <<>>
    ELSE IF Head(roles) \in seen THEN FirstSeen(Tail(roles), seen)
    ELSE <<Head(roles)>> \o FirstSeen(Tail(roles), seen \cup {Head(roles)})
\* What the role graphs return for an entity, relation by relation.
Returned(name, domain) ==
    get_roles(rm_map["g"], name, domain) \o get_roles(rm_map["g2"], name, domain)
ByDistance(l, start, domain) ==
    \A i, j \in 1..Len(l) :
        i < j => /\ Dist(start, l[i], domain) >= 1
                 /\ Dist(start, l[i], domain) <= Dist(start, l[j], domain)

\* C11: the list get_implicit_roles_for_user builds and returns is in
\* breadth-first first-discovery order: a role first reached at distance d
\* from the start stands before every role first reached at a larger
\* distance, and one expansion appends the not yet seen roles of the popped
\* entity in the order the role graphs returned them, relation by relation.
C11_BreadthFirstOrder ==
    /\ [](IsCall("get_implicit_roles_for_user") =>
            ByDistance(IF pc = "loop" THEN res ELSE ret.l, call.args[1], call.args[2]))
    /\ [][(pc = "loop" /\ queue # <<>>) =>
            res' = res \o FirstSeen(Returned(Head(queue), call.args[2]), Range(res))]_vars
\* alice -> admin -> bob returned as [admin, bob].
C11_Witness ==
    /\ pc = "idle"
    /\ call = [op |-> "get_implicit_roles_for_user", args |-> <<"alice", None>>]
    /\ g["g"] = << <<"alice", "admin">>, <<"admin", "bob">> >>
    /\ ret = RetList(<<"admin", "bob">>)

\* C17: during one traversal every entity, the starting entity included, is
\* popped from the queue and expanded at most once.
C17_PoppedOnce == NoDup(popped)

\* C20: the list get_implicit_permissions_for_user(user) returns holds each
\* stored permission rule at most once, also when the user lies on a role
\* cycle.
C20_EachRuleOnce ==
    IsCall("get_implicit_permissions_for_user") => NoDup(ret.l)

\* ---------------------------------------------------------------------------
\* Removals.

\* C14: delete_permission(*permission) removes, for every subject, each
\* permission rule whose fields from position 1 on equal the permission,
\* leaves every other permission rule and every grouping rule as it was, and
\* returns false, the store unchanged, when no rule matches.
C14_DeletePermissionFrame ==
    [][\A permission \in Permission :
        call' = [op |-> "delete_permission", args |-> permission] =>
            LET Matches(r) == <<r[2], r[3]>> = permission
            IN  /\ p' = SelectSeq(p, LAMBDA r : ~Matches(r))
                /\ g' = g
                /\ rm_map' = rm_map
                /\ ret' = RetBool(\E r \in Range(p) : Matches(r))
                /\ (~\E r \in Range(p) : Matches(r)) => (ret' = RetBool(FALSE) /\ p' = p)]_vars
\* A delete_permission that removed the matching rule and kept the other one.
C14_Witness ==
    /\ call = [op |-> "delete_permission", args |-> <<"data1", "read">>]
    /\ ret = RetBool(TRUE)
    /\ p = << <<"alice", "data2", "read">> >>

\* C15: delete_role_for_user for a role the user does not hold, and
\* delete_permission_for_user for a rule that is not stored, return false,
\* raise nothing, and leave the store and the role graph unchanged.
C15_AbsentTargetIsNoOp ==
    [][/\ \A user \in Entity, role \in Entity :
            (/\ call' = [op |-> "delete_role_for_user", args |-> <<user, role>>]
             /\ <<user, role>> \notin Range(g["g"]))
                => (ret' = RetBool(FALSE) /\ store' = store)
       /\ \A user \in Entity, permission \in Permission :
            (/\ call' = [op |-> "delete_permission_for_user",
                         args |-> join_slice(user, permission)]
             /\ join_slice(user, permission) \notin Range(p))
                => (ret' = RetBool(FALSE) /\ store' = store)]_vars
\* delete_permission_for_user of an absent rule, with another rule of the
\* same user stored.
C15_Witness ==
    /\ call = [op |-> "delete_permission_for_user",
               args |-> <<"alice", "data1", "read">>]
    /\ ret = RetBool(FALSE)
    /\ p = << <<"alice", "data2", "read">> >>
    /\ g["g"] # <<>>

\* ---------------------------------------------------------------------------
\* Queries.
QueryOps ==
    {"get_roles_for_user", "get_users_for_role", "has_role_for_user",
     "get_permissions_for_user", "has_permission_for_user",
     "get_implicit_roles_for_user", "get_implicit_permissions_for_user",
     "get_implicit_users_for_permission"}

\* C13: every query operation leaves the rules of the Policy Store and the
\* edges of the Role Graphs as they were.
C13_QueriesReadOnly ==
    [][call'.op \in QueryOps => (p' = p /\ g' = g /\ Edges(rm_map') = Edges(rm_map))]_vars
\* A query that returned rules of a store that also holds a grouping rule.
C13_Witness ==
    /\ call = [op |-> "get_permissions_for_user", args |-> <<"alice">>]
    /\ ret = RetList(p)
    /\ p # <<>>
    /\ g["g"] # <<>>

\* ---------------------------------------------------------------------------
\* Malformed permission tuples.

\* C16: add_permission_for_user, has_permission_for_user and
\* get_implicit_users_for_permission called with a permission tuple of the
\* wrong arity end in an InvalidArity error, and no rule of the wrong arity
\* is ever stored.
C16_InvalidArity ==
    /\ \A rule \in Range(p) : rule \in PRules
    /\ \A user \in Entity, permission \in Malformed :
        (\/ call = [op |-> "add_permission_for_user",
                    args |-> join_slice(user, permission)]
         \/ call = [op |-> "has_permission_for_user",
                    args |-> join_slice(user, permission)]
         \/ call = [op |-> "get_implicit_users_for_permission", args |-> permission])
            => ret.kind = "InvalidArity"

\* ---------------------------------------------------------------------------
\* Interleaving.
ObserverOps == {"get_roles_for_user", "get_permissions_for_user"}
\* The composite has removed grouping rules of its entity, and permission
\* rules of that entity are still stored.
PartlyApplied == co.at # "none" /\ co.res1 /\ co.arg \in Subjects

\* C12: delete_user and delete_role are not partially applied under
\* interleaving: no operation of another coroutine, scheduled at an await
\* point of the composite, observes a store in which the entity's grouping
\* rules are removed while its permission rules are still present.
C12_NoPartialApplication == call.op \in ObserverOps => ~PartlyApplied

\* C18: get_implicit_permissions_for_user is not snapshot-isolated. With no
\* mutation scheduled at its await points its result is the aggregate of
\* the one store state it ran in (this formula); with a mutation composite
\* of another coroutine scheduled there, there is an interleaving in which
\* its result is the aggregate of no store state that existed between its
\* start and its end (the witness).
C18_AggregateWhenUndisturbed ==
    (ip.at = "returned" /\ ip.n = 0) =>
        /\ ret.l = Concatenation(<<ip.user>> \o implicit_roles_for_user(ip.user, None))
        /\ ip.seen = {ret.l}
\* On the acyclic role graph admin -> alice -> bob, the call for admin has
\* returned a list that no store state between its start and its end
\* aggregates to.
C18_Witness ==
    /\ ip.at = "returned"
    /\ call = [op |-> "get_implicit_permissions_for_user", args |-> <<"admin", None>>]
    /\ g = [pt \in Range(GTypes) |-> IF pt = "g2" THEN G2Loaded ELSE <<>>]
    /\ ip.n > 0
    /\ ret.l \notin ip.seen

\* ---------------------------------------------------------------------------
\* Domains.

\* C19: get_implicit_permissions_for_user(user, domain) with a domain
\* follows only the role edges visible in that domain and returns only
\* stored permission rules whose subject is the user or an entity of that
\* closure and whose domain column equals the domain: no rule of another
\* domain is returned.
C19_DomainScoped ==
    \A user \in Entity, domain \in Domains :
        call = [op |-> "get_implicit_permissions_for_user", args |-> <<user, domain>>]
            => \A i \in 1..Len(ret.l) :
                /\ ret.l[i] \in Range(p)
                /\ ret.l[i][1] \in {user} \cup Reachable(user, domain)
                /\ ret.l[i][2] = domain
\* alice holds admin in d1 only; admin has a rule in d1 and one in d2; the
\* query for alice in d1 returned the first and not the second.
C19_Witness ==
    /\ call = [op |-> "get_implicit_permissions_for_user", args |-> <<"alice", "d1">>]
    /\ p = << <<"admin", "d1", "data1", "read">>, <<"admin", "d2", "data1", "read">> >>
    /\ ret = RetList(<< <<"admin", "d1", "data1", "read">> >>)

====
